---- MODULE Spec2Model ----
(***************************************************************************)
(* Metal price tracker: the alert state machine of main.py,                *)
(* price_tracker.py and notifier.py.                                       *)
(*                                                                         *)
(* Prices are integers.  A drop percentage is kept as the exact fraction   *)
(* <<(baseline - price) * 100, baseline>>, compared by cross               *)
(* multiplication, so that "drop >= 10" is decided without rounding.       *)
(* A ledger timestamp (datetime.now().isoformat()) is the token Stamp.     *)
(* The "set_at" key of the baseline document is not modelled.              *)
(*                                                                         *)
(* Specifications:                                                         *)
(*   Spec, SpecLoaded, SpecWatch  the commands of main.py, from no         *)
(*                documents, from any documents, with a remembered tick    *)
(*   SpecEval     PriceTracker.check_alerts on its own                     *)
(*   SpecLedger   AlertState on its own                                    *)
(*   SpecFetch    PriceTracker.fetch_current_price on its own              *)
(*   SpecProcess  the process with its construction over any documents,    *)
(*                uncaught exceptions and stops                            *)
(***************************************************************************)
EXTENDS Integers, Sequences, FiniteSets, TLC

\* ---- bounds of the model -------------------------------------------------
\* Fetched display prices are 0 and MinPrice..MaxPrice.
MinPrice == 4
MaxPrice == 6
\* Where check_alerts is evaluated on its own, baselines and prices are
\* 0..EvalMaxPrice.
EvalMaxPrice == 10
\* Where the AlertState is called on its own, at most MaxCalls calls are made.
MaxCalls == 3
\* The feed's price list holds at most MaxObservations observations.
MaxObservations == 2

\* ---- values ---------------------------------------------------------------
\* Python's None where a price is expected.
None == -1
\* calculate_drop_percentage's None.
Undefined == << >>
\* A ledger entry: None, or the timestamp written by mark_alert_sent.
Absent == "None"
Stamp == "timestamp"

\* for metal in ["gold", "silver"]
Metals == <<"gold", "silver">>
MetalSet == {"gold", "silver"}
Thresholds == {10, 20}
ThresholdKeys == {"10", "20"}
Prices == {0} \cup (MinPrice..MaxPrice)
OptPrices == Prices \cup {None}
\* Config.GOLD_BASELINE_PRICE / SILVER_BASELINE_PRICE: 0 when the variable is
\* not set, else the configured price.
Overrides == {0, MaxPrice}
EvalPrices == 0..EvalMaxPrice

\* str(threshold)
str(threshold) == IF threshold = 10 THEN "10" ELSE "20"

\* What dict.get finds for a key that is not in the dictionary.
Missing == "KeyError"
\* state[m] for a metal that is not a key of the ledger
NoEntries == [k \in ThresholdKeys |-> Missing]
\* {"10": None, "20": None}
EmptyEntries == [k \in ThresholdKeys |-> Absent]
\* the default ledger document
DefaultState == [m \in MetalSet |-> EmptyEntries]
\* the default baseline document
DefaultBaselines == [m \in MetalSet |-> None]
\* What can be found under a document's name: no file, a complete document,
\* the beginning of one (left by an interrupted write), text that is not
\* JSON, or JSON that is not an object.
DiskConditions == {"absent", "complete", "partial", "garbled", "not_object"}
\* Config.BASELINE_FILE and Config.STATE_FILE
DocNames == {"baseline", "state"}
\* no file under either name
NoDocuments == [baseline |-> "absent", state |-> "absent"]
\* a complete document under both names
BothDocuments == [baseline |-> "complete", state |-> "complete"]
\* the feed's response where it is not looked at: only the outcome of
\* fetch_current_price is chosen
NoFeed ==
    [transport |-> "ok", envelope |-> "object", success |-> FALSE,
     data |-> << >>]
\* fetch_current_price has not been called
NotFetched == [outcome |-> "pending", display_price |-> None]
NoResults == [email |-> FALSE, sms |-> FALSE, skipped |-> FALSE]
NoSummary == [baseline_price |-> None, drop_percentage |-> Undefined]

VARIABLES
    Config,           \* the environment-derived configuration (constant)
    baseline_prices,  \* PriceTracker.baseline_prices (in memory)
    baseline_file,    \* the persisted baseline document
    state,            \* AlertState.state (in memory)
    state_file,       \* the persisted ledger document
    pc,               \* position of the process
    cmd,              \* the operator command being run
    mi,               \* index of the current metal in Metals
    price_data,       \* display price of the fetched PriceData, or None
    summary,          \* get_price_summary's result for the current metal
    alerts,           \* check_alerts' result for the current metal
    ti,               \* index of the current threshold in alerts
    results,          \* send_price_alert's result for the current threshold
    report,           \* what the current pass printed about its outcome
    events,           \* history: the calls made in the current pass, in order
    start_docs,       \* history: the four documents when the current pass began
    delivered,        \* history: deliveries per (metal, threshold) since the
                      \*   last PriceTracker.set_baseline for the metal
    delivered_price,  \* history: per metal, the price an alert was delivered
                      \*   at in the current tick (None: no delivery)
    watch,            \* history: the metal whose previous tick is remembered
    prev,             \* history: the previous tick of the watched metal
    disk,             \* what is on disk under BASELINE_FILE and STATE_FILE:
                      \*   no file, a complete document (its content is
                      \*   baseline_file / state_file), or something else
    calls,            \* history: the calls made on an AlertState, in order
    feed,             \* the response of the price feed to the next request
    fetched           \* what fetch_current_price did with that response

vars == <<Config, baseline_prices, baseline_file, state, state_file, pc, cmd,
          mi, price_data, summary, alerts, ti, results, report, events,
          start_docs, delivered, delivered_price, watch, prev, disk, calls,
          feed, fetched>>

docs == <<baseline_prices, baseline_file, state, state_file, disk>>
\* the variables of the specifications of single functions
probes == <<calls, feed, fetched>>
locals == <<price_data, summary, alerts, ti, results>>

metal == Metals[mi]

\* ---- config.py -------------------------------------------------------------
Configs ==
    [ALERT_10_PERCENT : BOOLEAN, ALERT_20_PERCENT : BOOLEAN,
     email_configured : BOOLEAN, sms_configured : BOOLEAN,
     GOLD_BASELINE_PRICE : Overrides, SILVER_BASELINE_PRICE : Overrides]

is_email_configured == Config.email_configured
is_sms_configured == Config.sms_configured

\* Config.GOLD_BASELINE_PRICE or Config.SILVER_BASELINE_PRICE, by metal.
Override(m) ==
    IF m = "gold" THEN Config.GOLD_BASELINE_PRICE
    ELSE Config.SILVER_BASELINE_PRICE

\* ---- price_tracker.py ------------------------------------------------------
\* get_baseline reading the stored baseline whatever the configuration.
get_baseline_stored(m) == baseline_prices[m]

get_baseline(m) ==
    IF m = "gold" /\ Config.GOLD_BASELINE_PRICE > 0
    THEN Config.GOLD_BASELINE_PRICE
    ELSE IF m = "silver" /\ Config.SILVER_BASELINE_PRICE > 0
    THEN Config.SILVER_BASELINE_PRICE
    ELSE baseline_prices[m]

\* calculate_drop_percentage measuring the rise instead of the drop.
calculate_drop_percentage_rise(m, current_price) ==
    LET baseline == get_baseline(m)
    IN  IF baseline = None \/ baseline <= 0
        THEN Undefined
        ELSE <<(current_price - baseline) * 100, baseline>>

calculate_drop_percentage(m, current_price) ==
    LET baseline == get_baseline(m)
    IN  IF baseline = None \/ baseline <= 0
        THEN Undefined
        ELSE <<(baseline - current_price) * 100, baseline>>

\* DropAtLeast with > for >=.
DropAtLeast_Strict(drop, threshold) == drop[1] > threshold * drop[2]

\* drop_percentage >= threshold, for a defined drop
DropAtLeast(drop, threshold) == drop[1] >= threshold * drop[2]

\* check_alerts appending the higher threshold first.
check_alerts_descending(m, current_price) ==
    LET drop_percentage == calculate_drop_percentage(m, current_price)
    IN  IF drop_percentage = Undefined
        THEN << >>
        ELSE (IF Config.ALERT_20_PERCENT /\ DropAtLeast(drop_percentage, 20)
              THEN <<20>> ELSE << >>)
             \o
             (IF Config.ALERT_10_PERCENT /\ DropAtLeast(drop_percentage, 10)
              THEN <<10>> ELSE << >>)

check_alerts(m, current_price) ==
    LET drop_percentage == calculate_drop_percentage(m, current_price)
    IN  IF drop_percentage = Undefined
        THEN << >>
        ELSE (IF Config.ALERT_10_PERCENT /\ DropAtLeast(drop_percentage, 10)
              THEN <<10>> ELSE << >>)
             \o
             (IF Config.ALERT_20_PERCENT /\ DropAtLeast(drop_percentage, 20)
              THEN <<20>> ELSE << >>)

get_price_summary(m, price) ==
    [baseline_price |-> get_baseline(m),
     drop_percentage |-> calculate_drop_percentage(m, price)]

\* set_baseline storing the price for every metal.
set_baseline_every_metal(m, price) == [x \in MetalSet |-> price]

\* self.baseline_prices[metal] = price
set_baseline(m, price) == [baseline_prices EXCEPT ![m] = price]

\* _save_baseline_prices / _save_state run to their end: the document d is
\* complete on disk.
Saved(d) == [disk EXCEPT ![d] = "complete"]

\* One element of the feed's "data" list: an object with the six fields read
\* by fetch_current_price and a numeric price_with_gst; an object with a field
\* missing; an object with all fields whose price_with_gst is not a number;
\* or something that is not an object (a string, a number, null).
Observation(kind, price) == [kind |-> kind, price |-> price]
Observations ==
    {Observation("record", price) : price \in MinPrice..MaxPrice}
    \cup {Observation(kind, None) :
              kind \in {"missing_field", "malformed_field", "not_object"}}
PriceLists ==
    UNION {[1..n -> Observations] : n \in 0..MaxObservations}
\* What requests.get(url, timeout=30), raise_for_status() and
\* response.json() give: a requests.RequestException, or the decoded body,
\* an object with "success" and "data" or something else (a list).
Feeds ==
    [transport : {"ok", "error"}, envelope : {"object", "other"},
     success : BOOLEAN, data : PriceLists]

\* return None
NotAvailable == [outcome |-> "None", display_price |-> None]
\* an exception leaves fetch_current_price
Raised == [outcome |-> "raised", display_price |-> None]

\* fetch_current_price on the response f: requests.RequestException, KeyError
\* and IndexError are caught; data.get on an envelope that is not an object
\* (AttributeError) and latest["product_name"] on an observation that is not
\* an object (TypeError) are not; the fields are copied without a look at
\* their types.
fetch_current_price(f) ==
    IF f.transport = "error" THEN NotAvailable
    ELSE IF f.envelope /= "object" THEN Raised
    ELSE IF ~f.success \/ f.data = << >> THEN NotAvailable
    ELSE LET latest == f.data[Len(f.data)]
         IN  CASE latest.kind = "record" ->
                    [outcome |-> "PriceData", display_price |-> latest.price]
               [] latest.kind = "missing_field" -> NotAvailable
               [] latest.kind = "malformed_field" ->
                    [outcome |-> "PriceData_malformed", display_price |-> None]
               [] latest.kind = "not_object" -> Raised

\* ---- notifier.py -----------------------------------------------------------
\* was_alert_sent never finding an entry.
was_alert_sent_never(m, threshold) == FALSE

\* was_alert_sent testing that the key exists, not that its value is set.
was_alert_sent_has_key(m, threshold) == state[m][str(threshold)] /= Missing

\* self.state[metal].get(str(threshold)) is not None
was_alert_sent(m, threshold) == state[m][str(threshold)] \notin {Absent, Missing}

\* if metal not in self.state: self.state[metal] = {"10": None, "20": None}
\* (in was_alert_sent and in mark_alert_sent; nothing is saved)
with_metal(m) ==
    IF state[m] = NoEntries THEN [state EXCEPT ![m] = EmptyEntries] ELSE state

mark_alert_sent(m, threshold) ==
    [with_metal(m) EXCEPT ![m][str(threshold)] = Stamp]

\* reset_alerts(metal) clearing one key of the metal only.
reset_alerts_one_key(m) == [state EXCEPT ![m]["10"] = Absent]

\* reset_alerts(metal) resetting the whole ledger.
reset_alerts_every_metal(m) == DefaultState

reset_alerts(m) == [state EXCEPT ![m] = EmptyEntries]

reset_all_alerts == DefaultState

\* The alert marked as sent whatever the channels answered.
AnyNotificationSucceeded_Always(r) == TRUE

\* results["email"] or results["sms"] in Notifier.send_price_alert
AnyNotificationSucceeded(r) == r.email \/ r.sms

\* The result of Notifier.send_price_alert when the email channel would
\* answer email_ok and the SMS channel sms_ok.
send_price_alert_results(m, threshold, email_ok, sms_ok) ==
    IF was_alert_sent(m, threshold)
    THEN [email |-> FALSE, sms |-> FALSE, skipped |-> TRUE]
    ELSE [email |-> is_email_configured /\ email_ok,
          sms |-> is_sms_configured /\ sms_ok,
          skipped |-> FALSE]

\* ---- main.py ---------------------------------------------------------------
\* The baseline test letting None through.
Truthy_NotZero(price) == price /= 0

\* if summary['baseline_price']:
Truthy(price) == price /= None /\ price /= 0

\* ShouldRebase with "and" for "or".
ShouldRebase_And(r) == r.email /\ r.sms

\* if results["email"] or results["sms"]: in check_prices_and_notify
ShouldRebase(r) == r.email \/ r.sms

\* new_baseline taken from the summary's baseline instead of the fetched price.
new_baseline_old == summary.baseline_price

\* new_baseline = price_data.display_price
new_baseline == price_data


\* ---- history helpers ---------------------------------------------------------
\* One entry of events: the call and its argument (a threshold or a price).
Event(kind, arg) == <<kind, arg>>

\* ChannelEvents with the SMS channel called only when there is no email
\* channel.
ChannelEvents_OneChannel(threshold) ==
    IF is_email_configured THEN <<Event("email", threshold)>>
    ELSE IF is_sms_configured THEN <<Event("sms", threshold)>>
    ELSE << >>

\* The channel calls send_price_alert makes for a threshold that is not skipped.
ChannelEvents(threshold) ==
    (IF is_email_configured THEN <<Event("email", threshold)>> ELSE << >>)
    \o (IF is_sms_configured THEN <<Event("sms", threshold)>> ELSE << >>)

EventsOf(kinds) == {i \in DOMAIN events : events[i][1] \in kinds}
Count(kinds) == Cardinality(EventsOf(kinds))
DispatchKinds == {"email", "sms"}
WriteKinds == {"mark_alert_sent", "set_baseline", "reset_alerts"}
\* thresholds of the current pass whose channels all failed (or were absent)
FailedThresholds == {events[i][2] : i \in EventsOf({"not_delivered"})}

NoPrev ==
    [price |-> None, drop |-> Undefined, delivered |-> FALSE, failed |-> {}]
NoDeliveries == [m \in MetalSet |-> [t \in Thresholds |-> 0]]
NoDeliveredPrice == [m \in MetalSet |-> None]

\* ---- the state after construction ------------------------------------------
\* PriceTracker() and Notifier() load the two documents; with no document on
\* disk both are the defaults.
InitCommon ==
    /\ Config \in Configs
    /\ baseline_prices = baseline_file
    /\ state = state_file
    /\ pc = "idle"
    /\ cmd = "none"
    /\ mi = 1
    /\ price_data = None
    /\ summary = NoSummary
    /\ alerts = << >>
    /\ ti = 1
    /\ results = NoResults
    /\ report = "none"
    /\ events = << >>
    /\ start_docs = docs
    /\ delivered = NoDeliveries
    /\ delivered_price = NoDeliveredPrice
    /\ prev = NoPrev
    /\ calls = << >>
    /\ feed = NoFeed
    /\ fetched = NotFetched

Init ==
    /\ baseline_file = DefaultBaselines
    /\ state_file = DefaultState
    /\ disk = NoDocuments
    /\ watch = "nobody"
    /\ InitCommon

\* The documents left on disk by earlier runs (a run interrupted between
\* mark_alert_sent and reset_alerts leaves a ledger entry present); no baseline
\* override is configured.
InitLoaded ==
    /\ baseline_file \in [MetalSet -> OptPrices]
    /\ state_file \in [MetalSet -> [ThresholdKeys -> {Absent, Stamp}]]
    /\ disk = BothDocuments
    /\ watch = "nobody"
    /\ InitCommon
    /\ Config.GOLD_BASELINE_PRICE = 0
    /\ Config.SILVER_BASELINE_PRICE = 0

\* As Init, remembering for one metal what its previous tick did.
InitWatch ==
    /\ baseline_file = DefaultBaselines
    /\ state_file = DefaultState
    /\ disk = NoDocuments
    /\ watch \in MetalSet
    /\ InitCommon

\* ---- check_prices_and_notify -----------------------------------------------
\* The locals and the history of a loop body starting for Metals[i].
FreshPass(i) ==
    /\ mi' = i
    /\ price_data' = None
    /\ summary' = NoSummary
    /\ alerts' = << >>
    /\ ti' = 1
    /\ results' = NoResults
    /\ report' = "none"
    /\ events' = << >>
    /\ start_docs' = docs

\* Entering the loop body of check_prices_and_notify for Metals[i].
BeginPass(i) == pc' = "fetch" /\ FreshPass(i)

\* main(): the default command and each scheduled run of the daemon.
StartTick ==
    /\ pc = "idle"
    /\ cmd' = "check"
    /\ BeginPass(1)
    /\ delivered_price' = NoDeliveredPrice
    /\ UNCHANGED <<Config, probes, docs, delivered, watch, prev>>

\* FetchFails leaving the whole loop instead of continuing it.
FetchFails_Return ==
    /\ pc = "fetch"
    /\ price_data' = None
    /\ report' = "fetch_failed"
    /\ pc' = "exit"
    /\ UNCHANGED <<Config, probes, docs, cmd, mi, summary, alerts, ti,
                   results, events, start_docs, delivered, delivered_price,
                   watch, prev>>

\* fetch_current_price fails: report and continue with the next metal.
FetchFails ==
    /\ pc = "fetch"
    /\ price_data' = None
    /\ report' = "fetch_failed"
    /\ pc' = "continue"
    /\ UNCHANGED <<Config, probes, docs, cmd, mi, summary, alerts, ti,
                   results, events, start_docs, delivered, delivered_price,
                   watch, prev>>

\* fetch_current_price succeeds; the summary is computed, the baseline tested
\* and check_alerts evaluated.
FetchSucceeds ==
    /\ pc = "fetch"
    /\ \E price \in Prices :
        /\ price_data' = price
        /\ summary' = get_price_summary(metal, price)
        /\ IF Truthy(get_price_summary(metal, price).baseline_price)
           THEN /\ alerts' = check_alerts(metal, price)
                /\ report' = "checked"
                /\ pc' = "alert"
           ELSE /\ alerts' = << >>
                /\ report' = "baseline_not_set"
                /\ pc' = "continue"
    /\ ti' = 1
    /\ UNCHANGED <<Config, probes, docs, cmd, mi, results, events, start_docs,
                   delivered, delivered_price, watch, prev>>

\* Notifier.send_price_alert(metal, alerts[ti], summary), the whole call.
\* The history records a delivery when a channel answered with success,
\* whatever the code then does with the results.
SendPriceAlert ==
    /\ pc = "alert"
    /\ ti <= Len(alerts)
    /\ \E email_ok \in BOOLEAN, sms_ok \in BOOLEAN :
        LET threshold == alerts[ti]
            r == send_price_alert_results(metal, threshold, email_ok, sms_ok)
            marks == ~r.skipped /\ AnyNotificationSucceeded(r)
            success == r.email \/ r.sms
        IN  /\ results' = r
            /\ state' = IF marks THEN mark_alert_sent(metal, threshold)
                        ELSE with_metal(metal)
            /\ state_file' = IF marks THEN state' ELSE state_file
            /\ disk' = IF marks THEN Saved("state") ELSE disk
            /\ events' = events \o
                  (IF r.skipped
                   THEN <<Event("skipped", threshold)>>
                   ELSE ChannelEvents(threshold) \o
                        <<Event(IF success THEN "delivered" ELSE "not_delivered",
                                threshold)>> \o
                        (IF marks
                         THEN <<Event("mark_alert_sent", threshold)>>
                         ELSE << >>))
            /\ delivered' =
                  IF success /\ delivered[metal][threshold] < 2
                  THEN [delivered EXCEPT ![metal][threshold] = @ + 1]
                  ELSE delivered
            /\ delivered_price' =
                  IF success THEN [delivered_price EXCEPT ![metal] = price_data]
                  ELSE delivered_price
    /\ pc' = "results"
    /\ UNCHANGED <<Config, probes, baseline_prices, baseline_file, cmd, mi,
                   price_data, summary, alerts, ti, report, start_docs, watch,
                   prev>>

\* HandleResults with the call of tracker.set_baseline left out.
HandleResults_NoSetBaseline ==
    /\ pc = "results"
    /\ IF ~results.skipped /\ (results.email \/ results.sms)
       THEN pc' = "reset_alerts" /\ ti' = ti
       ELSE pc' = "alert" /\ ti' = ti + 1
    /\ UNCHANGED <<Config, probes, docs, cmd, mi, price_data, summary, alerts,
                   results, report, events, start_docs, delivered,
                   delivered_price, watch, prev>>

\* The loop body after send_price_alert returned: rebase, or next threshold.
HandleResults ==
    /\ pc = "results"
    /\ IF ~results.skipped /\ ShouldRebase(results)
       THEN pc' = "set_baseline" /\ ti' = ti
       ELSE pc' = "alert" /\ ti' = ti + 1
    /\ UNCHANGED <<Config, probes, docs, cmd, mi, price_data, summary, alerts,
                   results, report, events, start_docs, delivered,
                   delivered_price, watch, prev>>

\* RebaseBaseline writing the baseline document without updating the
\* tracker's dictionary.
RebaseBaseline_FileOnly ==
    /\ pc = "set_baseline"
    /\ baseline_file' = set_baseline(metal, new_baseline)
    /\ disk' = Saved("baseline")
    /\ events' = Append(events, Event("set_baseline", new_baseline))
    /\ delivered' = [delivered EXCEPT ![metal] = [t \in Thresholds |-> 0]]
    /\ pc' = "reset_alerts"
    /\ UNCHANGED <<Config, probes, baseline_prices, state, state_file, cmd,
                   mi, locals, report, start_docs, delivered_price, watch,
                   prev>>

\* tracker.set_baseline(metal, new_baseline)
RebaseBaseline ==
    /\ pc = "set_baseline"
    /\ baseline_prices' = set_baseline(metal, new_baseline)
    /\ baseline_file' = baseline_prices'
    /\ disk' = Saved("baseline")
    /\ events' = Append(events, Event("set_baseline", new_baseline))
    /\ delivered' = [delivered EXCEPT ![metal] = [t \in Thresholds |-> 0]]
    /\ pc' = "reset_alerts"
    /\ UNCHANGED <<Config, probes, state, state_file, cmd, mi, locals, report,
                   start_docs, delivered_price, watch, prev>>

\* RebaseResetAlerts resetting the AlertState without saving it.
RebaseResetAlerts_NoSave ==
    /\ pc = "reset_alerts"
    /\ state' = reset_alerts(metal)
    /\ UNCHANGED <<state_file, disk>>
    /\ events' = Append(events, Event("reset_alerts", alerts[ti]))
    /\ ti' = ti + 1
    /\ pc' = "alert"
    /\ UNCHANGED <<Config, probes, baseline_prices, baseline_file, cmd, mi,
                   price_data, summary, alerts, results, report, start_docs,
                   delivered, delivered_price, watch, prev>>

\* notifier.reset_alerts(metal)
RebaseResetAlerts ==
    /\ pc = "reset_alerts"
    /\ state' = reset_alerts(metal)
    /\ state_file' = state'
    /\ disk' = Saved("state")
    /\ events' = Append(events, Event("reset_alerts", alerts[ti]))
    /\ ti' = ti + 1
    /\ pc' = "alert"
    /\ UNCHANGED <<Config, probes, baseline_prices, baseline_file, cmd, mi,
                   price_data, summary, alerts, results, report, start_docs,
                   delivered, delivered_price, watch, prev>>

\* for threshold in alerts: exhausted.
AlertsDone ==
    /\ pc = "alert"
    /\ ti > Len(alerts)
    /\ pc' = "continue"
    /\ UNCHANGED <<Config, probes, docs, cmd, mi, locals, report, events,
                   start_docs, delivered, delivered_price, watch, prev>>

\* What the pass that just ended leaves for the next tick to be compared with.
PassRecord ==
    [price |-> price_data,
     drop |-> summary.drop_percentage,
     delivered |-> Count({"delivered"}) > 0,
     failed |-> FailedThresholds]

\* for metal in ["gold", "silver"]: the next metal, or the end of the tick.
Continue ==
    /\ pc = "continue"
    /\ prev' = IF metal = watch THEN PassRecord ELSE prev
    /\ IF mi < Len(Metals)
       THEN BeginPass(mi + 1)
       ELSE /\ pc' = "exit"
            /\ UNCHANGED <<mi, locals, report, events, start_docs>>
    /\ UNCHANGED <<Config, probes, docs, cmd, delivered, delivered_price,
                   watch>>

\* ---- set_baseline(tracker, notifier): the --set-baseline command -----------
StartSetBaseline ==
    /\ pc = "idle"
    /\ cmd' = "set_baseline"
    /\ FreshPass(1)
    /\ pc' = "sb_fetch"
    /\ prev' = NoPrev
    /\ UNCHANGED <<Config, probes, docs, delivered, delivered_price, watch>>

\* One iteration of set_baseline's loop: fetch, and set the baseline when the
\* fetch succeeded.
SetBaselineFetch ==
    /\ pc = "sb_fetch"
    /\ \E price \in OptPrices :
        /\ price_data' = price
        /\ IF price /= None
           THEN /\ baseline_prices' = set_baseline(metal, price)
                /\ baseline_file' = baseline_prices'
                /\ disk' = Saved("baseline")
                /\ events' = Append(events, Event("set_baseline", price))
                /\ delivered' =
                      [delivered EXCEPT ![metal] = [t \in Thresholds |-> 0]]
           ELSE UNCHANGED <<baseline_prices, baseline_file, disk, events,
                            delivered>>
    /\ IF mi < Len(Metals)
       THEN mi' = mi + 1 /\ pc' = "sb_fetch"
       ELSE mi' = mi /\ pc' = "sb_reset"
    /\ UNCHANGED <<Config, probes, state, state_file, cmd, summary, alerts,
                   ti, results, report, start_docs, delivered_price, watch,
                   prev>>

\* notifier.reset_alerts() at the end of set_baseline.
SetBaselineReset ==
    /\ pc = "sb_reset"
    /\ state' = reset_all_alerts
    /\ state_file' = state'
    /\ disk' = Saved("state")
    /\ pc' = "exit"
    /\ UNCHANGED <<Config, probes, baseline_prices, baseline_file, cmd, mi,
                   locals, report, events, start_docs, delivered,
                   delivered_price, watch, prev>>

\* ---- the --reset-alerts command ----------------------------------------------
\* ResetAlertsCommand forgetting the baselines as well.
ResetAlertsCommand_ClearsBaselines ==
    /\ pc = "idle"
    /\ cmd' = "reset_alerts"
    /\ state' = reset_all_alerts
    /\ state_file' = state'
    /\ baseline_prices' = DefaultBaselines
    /\ baseline_file' = baseline_prices'
    /\ disk' = BothDocuments
    /\ prev' = NoPrev
    /\ pc' = "exit"
    /\ UNCHANGED <<Config, probes, mi, locals, report, events, start_docs,
                   delivered, delivered_price, watch>>

ResetAlertsCommand ==
    /\ pc = "idle"
    /\ cmd' = "reset_alerts"
    /\ state' = reset_all_alerts
    /\ state_file' = state'
    /\ disk' = Saved("state")
    /\ prev' = NoPrev
    /\ pc' = "exit"
    /\ UNCHANGED <<Config, probes, baseline_prices, baseline_file, mi, locals,
                   report, events, start_docs, delivered, delivered_price,
                   watch>>

\* The command returns to main (or to the daemon's scheduler).
Exit ==
    /\ pc = "exit"
    /\ pc' = "idle"
    /\ cmd' = "none"
    /\ mi' = 1
    /\ price_data' = None
    /\ summary' = NoSummary
    /\ alerts' = << >>
    /\ ti' = 1
    /\ results' = NoResults
    /\ report' = "none"
    /\ events' = << >>
    /\ start_docs' = docs
    /\ delivered_price' = NoDeliveredPrice
    /\ UNCHANGED <<Config, probes, docs, delivered, watch, prev>>

Next ==
    \/ StartTick
    \/ FetchFails
    \/ FetchSucceeds
    \/ SendPriceAlert
    \/ HandleResults
    \/ RebaseBaseline
    \/ RebaseResetAlerts
    \/ AlertsDone
    \/ Continue
    \/ StartSetBaseline
    \/ SetBaselineFetch
    \/ SetBaselineReset
    \/ ResetAlertsCommand
    \/ Exit

Spec == Init /\ [][Next]_vars

SpecLoaded == InitLoaded /\ [][Next]_vars

SpecWatch == InitWatch /\ [][Next]_vars

\* ---- PriceTracker.check_alerts on its own ----------------------------------------
\* A tracker constructed over any baseline document.
InitEval ==
    /\ baseline_file \in [MetalSet -> EvalPrices \cup {None}]
    /\ state_file = DefaultState
    /\ disk = [baseline |-> "complete", state |-> "absent"]
    /\ watch = "nobody"
    /\ InitCommon

\* tracker.get_price_summary(metal, price) and tracker.check_alerts(metal,
\* price) for any metal and price.
EvalCheckAlerts ==
    /\ pc = "idle"
    /\ \E i \in DOMAIN Metals, price \in EvalPrices :
        /\ mi' = i
        /\ price_data' = price
        /\ summary' = get_price_summary(Metals[i], price)
        /\ alerts' = check_alerts(Metals[i], price)
    /\ pc' = "evaluated"
    /\ UNCHANGED <<Config, probes, docs, cmd, ti, results, report, events,
                   start_docs, delivered, delivered_price, watch, prev>>

\* The results are dropped.
EvalReturn ==
    /\ pc = "evaluated"
    /\ pc' = "idle"
    /\ mi' = 1
    /\ price_data' = None
    /\ summary' = NoSummary
    /\ alerts' = << >>
    /\ UNCHANGED <<Config, probes, docs, cmd, ti, results, report, events,
                   start_docs, delivered, delivered_price, watch, prev>>

NextEval == EvalCheckAlerts \/ EvalReturn

SpecEval == InitEval /\ [][NextEval]_vars

\* ---- AlertState on its own ----------------------------------------------------------
\* The entries of a metal in a ledger document: both keys, or the metal is
\* not in the document.
LoadedEntries == [ThresholdKeys -> {Absent, Stamp}] \cup {NoEntries}

\* An AlertState constructed over any ledger document; every alert and
\* channel is enabled and no override is configured.
InitLedger ==
    /\ baseline_file = DefaultBaselines
    /\ state_file \in [MetalSet -> LoadedEntries]
    /\ disk = [baseline |-> "absent", state |-> "complete"]
    /\ watch = "nobody"
    /\ InitCommon
    /\ Config.ALERT_10_PERCENT /\ Config.ALERT_20_PERCENT
    /\ Config.email_configured /\ Config.sms_configured
    /\ Config.GOLD_BASELINE_PRICE = 0 /\ Config.SILVER_BASELINE_PRICE = 0

\* One entry of calls.
LedgerCall(op, m, threshold, result) ==
    [op |-> op, metal |-> m, threshold |-> threshold, result |-> result]

\* alert_state.was_alert_sent(m, threshold)
CallWasAlertSent ==
    /\ Len(calls) < MaxCalls
    /\ \E m \in MetalSet, threshold \in Thresholds :
        /\ calls' = Append(calls, LedgerCall("was_alert_sent", m, threshold,
                                             was_alert_sent(m, threshold)))
        /\ state' = with_metal(m)
    /\ UNCHANGED <<Config, feed, fetched, baseline_prices, baseline_file,
                   state_file, disk, pc, cmd, mi, locals, report, events,
                   start_docs, delivered, delivered_price, watch, prev>>

\* alert_state.mark_alert_sent(m, threshold)
CallMarkAlertSent ==
    /\ Len(calls) < MaxCalls
    /\ \E m \in MetalSet, threshold \in Thresholds :
        /\ calls' = Append(calls, LedgerCall("mark_alert_sent", m, threshold,
                                             FALSE))
        /\ state' = mark_alert_sent(m, threshold)
    /\ state_file' = state'
    /\ disk' = Saved("state")
    /\ UNCHANGED <<Config, feed, fetched, baseline_prices, baseline_file, pc,
                   cmd, mi, locals, report, events, start_docs, delivered,
                   delivered_price, watch, prev>>

\* alert_state.reset_alerts(m), and alert_state.reset_alerts()
CallResetAlerts ==
    /\ Len(calls) < MaxCalls
    /\ \E m \in MetalSet \cup {"None"} :
        /\ calls' = Append(calls, LedgerCall("reset_alerts", m, 0, FALSE))
        /\ state' = IF m = "None" THEN reset_all_alerts ELSE reset_alerts(m)
    /\ state_file' = state'
    /\ disk' = Saved("state")
    /\ UNCHANGED <<Config, feed, fetched, baseline_prices, baseline_file, pc,
                   cmd, mi, locals, report, events, start_docs, delivered,
                   delivered_price, watch, prev>>

NextLedger == CallWasAlertSent \/ CallMarkAlertSent \/ CallResetAlerts

SpecLedger == InitLedger /\ [][NextLedger]_vars

\* ---- the process: construction, uncaught exceptions, stops -------------------------
\* json.load returned something that is not a dictionary (a list, a string,
\* a number, null), and it is what the tracker or the AlertState holds.  No
\* except clause of the load catches this; the object stays until
\* reset_alerts() replaces it, every other assignment into it raising
\* TypeError, so it is there exactly as long as the document on disk is the
\* one it was loaded from.  baseline_prices / state then hold the default as
\* a placeholder that no action reads.
NotADict(d) == disk[d] = "not_object"

\* PriceTracker._load_baseline_prices: the document, or the default on
\* FileNotFoundError and json.JSONDecodeError.
_load_baseline_prices ==
    IF disk["baseline"] = "complete" THEN baseline_file ELSE DefaultBaselines

\* AlertState._load_state, likewise.
_load_state ==
    IF disk["state"] = "complete" THEN state_file ELSE DefaultState

\* A process that has made no call yet.
FreshProcess ==
    /\ cmd' = "none"
    /\ mi' = 1
    /\ price_data' = None
    /\ summary' = NoSummary
    /\ alerts' = << >>
    /\ ti' = 1
    /\ results' = NoResults
    /\ report' = "none"
    /\ events' = << >>
    /\ start_docs' = docs'
    /\ delivered' = NoDeliveries
    /\ delivered_price' = NoDeliveredPrice
    /\ prev' = NoPrev
    /\ UNCHANGED <<Config, probes, watch>>

\* The process has ended: nothing of its memory is left.
Gone ==
    /\ baseline_prices' = DefaultBaselines
    /\ state' = DefaultState
    /\ pc' = "stopped"
    /\ FreshProcess

\* No process is running.  Earlier runs have left each document absent,
\* complete, unparseable, or parseable but not an object; a complete ledger
\* document may lack a metal.  Both alerts and the email channel are
\* configured, and only gold may have an override.
InitProcess ==
    /\ Config \in Configs
    /\ Config.ALERT_10_PERCENT /\ Config.ALERT_20_PERCENT
    /\ Config.email_configured
    /\ Config.SILVER_BASELINE_PRICE = 0
    /\ disk \in [DocNames -> DiskConditions \ {"partial"}]
    /\ baseline_file \in
          IF disk["baseline"] = "complete"
          THEN [MetalSet -> {None, MaxPrice}] ELSE {DefaultBaselines}
    /\ state_file \in
          IF disk["state"] = "complete"
          THEN [MetalSet -> LoadedEntries] ELSE {DefaultState}
    /\ baseline_prices = DefaultBaselines
    /\ state = DefaultState
    /\ pc = "stopped"
    /\ cmd = "none"
    /\ mi = 1
    /\ price_data = None
    /\ summary = NoSummary
    /\ alerts = << >>
    /\ ti = 1
    /\ results = NoResults
    /\ report = "none"
    /\ events = << >>
    /\ start_docs = docs
    /\ delivered = NoDeliveries
    /\ delivered_price = NoDeliveredPrice
    /\ watch = "nobody"
    /\ prev = NoPrev
    /\ calls = << >>
    /\ feed = NoFeed
    /\ fetched = NotFetched

\* main(): tracker = PriceTracker(); notifier = Notifier()
Start ==
    /\ pc \in {"stopped", "raised"}
    /\ baseline_prices' = _load_baseline_prices
    /\ state' = _load_state
    /\ pc' = "idle"
    /\ UNCHANGED <<baseline_file, state_file, disk>>
    /\ FreshProcess

\* An exception that nothing catches: AttributeError from
\* self.baseline_prices.get in get_baseline, TypeError from the assignment in
\* set_baseline and from was_alert_sent, on an object that is not a
\* dictionary.  The fetch before get_baseline and set_baseline has succeeded.
Raise ==
    /\ \/ pc = "fetch" /\ NotADict("baseline") /\ Override(metal) <= 0
       \/ pc = "alert" /\ ti <= Len(alerts) /\ NotADict("state")
       \/ pc = "set_baseline" /\ NotADict("baseline")
       \/ pc = "sb_fetch" /\ NotADict("baseline")
    /\ pc' = "raised"
    /\ UNCHANGED <<Config, probes, docs, cmd, mi, locals, report, events,
                   start_docs, delivered, delivered_price, watch, prev>>

\* The call at the current position is about to save the document d.
Saving(d) ==
    IF d = "baseline"
    THEN pc \in {"set_baseline", "sb_fetch"} /\ ~NotADict("baseline")
    ELSE \/ pc \in {"reset_alerts", "sb_reset", "idle"}
         \/ /\ pc = "alert"
            /\ ti <= Len(alerts)
            /\ ~NotADict("state")
            /\ ~was_alert_sent(metal, alerts[ti])

\* The process stops (it is killed, the machine goes down) between two calls.
Stop ==
    /\ pc \notin {"stopped", "raised"}
    /\ UNCHANGED <<baseline_file, state_file, disk>>
    /\ Gone

\* The process stops inside _save_baseline_prices or _save_state, after
\* open(file, 'w') has emptied the file and before json.dump has written all
\* of the document.
StopDuringSave ==
    /\ pc \notin {"stopped", "raised"}
    /\ \E d \in DocNames :
        /\ Saving(d)
        /\ disk' = [disk EXCEPT ![d] = "partial"]
        /\ baseline_file' =
              IF d = "baseline" THEN DefaultBaselines ELSE baseline_file
        /\ state_file' = IF d = "state" THEN DefaultState ELSE state_file
    /\ Gone

NextProcess ==
    \/ Start
    \/ StartTick
    \/ FetchFails
    \/ (NotADict("baseline") => Override(metal) > 0) /\ FetchSucceeds
    \/ ~NotADict("state") /\ SendPriceAlert
    \/ HandleResults
    \/ ~NotADict("baseline") /\ RebaseBaseline
    \/ RebaseResetAlerts
    \/ AlertsDone
    \/ Continue
    \/ StartSetBaseline
    \/ SetBaselineFetch /\ (NotADict("baseline") => price_data' = None)
    \/ SetBaselineReset
    \/ ResetAlertsCommand
    \/ Exit
    \/ Raise
    \/ Stop
    \/ StopDuringSave

SpecProcess == InitProcess /\ [][NextProcess]_vars

\* ---- PriceTracker.fetch_current_price on its own -----------------------------------
\* The feed answers the request in any of the modelled ways.
FeedResponds ==
    /\ pc = "idle"
    /\ fetched = NotFetched
    /\ feed' \in Feeds
    /\ pc' = "responded"
    /\ UNCHANGED <<Config, calls, fetched, docs, cmd, mi, locals, report,
                   events, start_docs, delivered, delivered_price, watch, prev>>

\* tracker.fetch_current_price(metal) returns, or raises.
FetchCurrentPrice ==
    /\ pc = "responded"
    /\ fetched' = fetch_current_price(feed)
    /\ pc' = IF fetched' = Raised THEN "raised" ELSE "fetched"
    /\ UNCHANGED <<Config, calls, feed, docs, cmd, mi, locals, report, events,
                   start_docs, delivered, delivered_price, watch, prev>>

\* The result is dropped.
FetchReturn ==
    /\ pc \in {"fetched", "raised"}
    /\ feed' = NoFeed
    /\ fetched' = NotFetched
    /\ pc' = "idle"
    /\ UNCHANGED <<Config, calls, docs, cmd, mi, locals, report, events,
                   start_docs, delivered, delivered_price, watch, prev>>

NextFetch == FeedResponds \/ FetchCurrentPrice \/ FetchReturn

SpecFetch == Init /\ [][NextFetch]_vars

\* ---- type invariant -----------------------------------------------------------
TypeOK ==
    /\ Config \in Configs
    /\ baseline_prices \in [MetalSet -> OptPrices \cup EvalPrices]
    /\ baseline_file \in [MetalSet -> OptPrices \cup EvalPrices]
    /\ state \in [MetalSet -> [ThresholdKeys -> {Absent, Stamp, Missing}]]
    /\ state_file \in [MetalSet -> [ThresholdKeys -> {Absent, Stamp, Missing}]]
    /\ calls \in Seq([op : {"was_alert_sent", "mark_alert_sent", "reset_alerts"},
                      metal : MetalSet \cup {"None"},
                      threshold : Thresholds \cup {0}, result : BOOLEAN])
    /\ mi \in 1..Len(Metals)
    /\ price_data \in OptPrices \cup EvalPrices
    /\ results \in [email : BOOLEAN, sms : BOOLEAN, skipped : BOOLEAN]
    /\ watch \in MetalSet \cup {"nobody"}
    /\ disk \in [DocNames -> DiskConditions]
    /\ feed \in Feeds
    /\ fetched.outcome \in
          {"pending", "None", "PriceData", "PriceData_malformed", "raised"}

\* ---- properties -----------------------------------------------------------------
InTick == cmd = "check"
PassEnded == InTick /\ pc = "continue"
LastEvent == events[Len(events)]

\* C1: for each metal and each threshold, at most one alert is delivered
\* between two consecutive calls of PriceTracker.set_baseline for the metal.
C1_AtMostOnceBetweenRebases ==
    \A m \in MetalSet : \A t \in Thresholds : delivered[m][t] <= 1

\* A second alert of the pass has just been delivered, after the rebase that
\* followed the first one.
C1_Witness ==
    /\ pc = "results"
    /\ Count({"set_baseline"}) = 1
    /\ delivered[metal][alerts[ti]] = 1

\* C2 as stated: in one pass of a tick the baseline is rebased at most once,
\* and exactly once when a threshold was delivered.
C2_Original ==
    InTick =>
        /\ Count({"set_baseline"}) <= 1
        /\ pc = "continue" =>
              Count({"set_baseline"}) =
                  (IF Count({"delivered"}) > 0 THEN 1 ELSE 0)

\* C2 amended: the rebase (set_baseline to the fetched display price, then
\* reset_alerts) runs once for every threshold delivered in the pass: never
\* when none was delivered, twice when both thresholds were.
C2_RebasePerDelivery ==
    InTick =>
        /\ Count({"set_baseline"}) <= Count({"delivered"})
        /\ Count({"reset_alerts"}) <= Count({"set_baseline"})
        /\ Count({"delivered"}) <= Count({"reset_alerts"}) + 1
        /\ \A i \in EventsOf({"set_baseline"}) : events[i][2] = price_data
        /\ pc = "continue" =>
              /\ Count({"set_baseline"}) = Count({"delivered"})
              /\ Count({"reset_alerts"}) = Count({"delivered"})

\* Both thresholds were delivered in one pass, which rebased twice.
C2_Witness == PassEnded /\ Count({"set_baseline"}) = 2

\* C3 as stated: no channel is called for the metal after set_baseline has
\* run for it in the same pass.
C3_Original ==
    InTick =>
        \A i \in EventsOf({"set_baseline"}) : \A j \in EventsOf(DispatchKinds) :
            j < i

\* C3 amended: the channels are called for a threshold before the rebase
\* that its own delivery triggers; the only calls after a rebase are for a
\* threshold higher than the one that triggered it.
C3_DispatchBeforeOwnRebase ==
    InTick =>
        \A i \in EventsOf({"set_baseline"}) :
            /\ i > 1
            /\ events[i - 1][1] = "mark_alert_sent"
            /\ \A j \in EventsOf(DispatchKinds) :
                /\ events[j][2] = events[i - 1][2] => j < i
                /\ j > i => events[j][2] > events[i - 1][2]

\* A channel was called for threshold 20 after the rebase triggered by 10.
C3_Witness ==
    /\ InTick
    /\ \E i \in EventsOf({"set_baseline"}) : \E j \in EventsOf(DispatchKinds) :
          j > i

\* The ledger entry of the current metal for a threshold when the pass began.
StartEntry(threshold) == start_docs[3][metal][str(threshold)]
ResetBefore(j) == \E i \in EventsOf({"reset_alerts"}) : i < j
SendKinds == {"email", "sms", "delivered", "not_delivered"}

\* C4 as stated: a threshold whose ledger entry was present when the pass
\* began is not dispatched in that pass.
C4_Original ==
    InTick =>
        \A j \in EventsOf(DispatchKinds) : StartEntry(events[j][2]) = Absent

\* C4 amended: skip or dispatch is decided by the ledger as it is when
\* send_price_alert is called for the threshold.  A threshold whose entry
\* was present when the pass began is skipped, unless a lower threshold was
\* delivered earlier in the pass: its rebase has reset the ledger and the
\* threshold is dispatched.
C4_DecidedByCurrentLedger ==
    InTick =>
        \A j \in DOMAIN events :
            /\ events[j][1] \in SendKinds =>
                  StartEntry(events[j][2]) = Absent \/ ResetBefore(j)
            /\ events[j][1] = "skipped" =>
                  StartEntry(events[j][2]) /= Absent /\ ~ResetBefore(j)

\* Threshold 20, marked sent when the pass began, is dispatched after the
\* delivery of threshold 10 reset the ledger.
C4_Witness ==
    /\ InTick
    /\ \E j \in EventsOf(DispatchKinds) :
          StartEntry(events[j][2]) /= Absent /\ ResetBefore(j)

\* C5: once a rebase has completed (the automatic one of a tick, or the
\* set-baseline command), every ledger entry of the rebased metal is absent,
\* in memory and in the ledger document.
C5_RebaseClearsAllEntries ==
    /\ (InTick /\ events /= << >> /\ LastEvent[1] = "reset_alerts") =>
          \A t \in Thresholds :
              ~was_alert_sent(metal, t) /\ state_file[metal][str(t)] = Absent
    /\ (cmd = "set_baseline" /\ pc = "exit") =>
          \A m \in MetalSet : \A t \in Thresholds :
              ~was_alert_sent(m, t) /\ state_file[m][str(t)] = Absent

\* The rebase after the delivery of threshold 10 has just completed in a pass
\* that began with the entry of threshold 20 present.
C5_Witness ==
    /\ InTick
    /\ events /= << >>
    /\ LastEvent = Event("reset_alerts", 10)
    /\ StartEntry(20) /= Absent

LedgerCleared(m) ==
    \A t \in Thresholds :
        ~was_alert_sent(m, t) /\ state_file[m][str(t)] = Absent
TickEnded == InTick /\ pc = "exit"
\* The pass of the current metal has fetched a price.
AfterFetch == pc \in {"alert", "results", "set_baseline", "reset_alerts", "continue"}

\* C6 as stated: after a pass (and after the tick) that delivered an alert
\* for a metal, get_baseline returns the display price fetched in that pass
\* and no ledger entry of the metal is present.
C6_Original ==
    /\ (PassEnded /\ Count({"delivered"}) > 0) =>
          get_baseline(metal) = price_data /\ LedgerCleared(metal)
    /\ TickEnded =>
          \A m \in MetalSet :
              delivered_price[m] /= None =>
                  get_baseline(m) = delivered_price[m] /\ LedgerCleared(m)

\* C6 amended: the stored baseline (in memory and in the baseline document)
\* is the fetched display price and the ledger of the metal is clear;
\* get_baseline returns that price unless a positive override is configured
\* for the metal, and then it returns the override.
C6_StoredBaselineIsFetchedPrice ==
    /\ (PassEnded /\ Count({"delivered"}) > 0) =>
          /\ baseline_prices[metal] = price_data
          /\ baseline_file[metal] = price_data
          /\ LedgerCleared(metal)
          /\ get_baseline(metal) =
                (IF Override(metal) > 0 THEN Override(metal) ELSE price_data)
    /\ TickEnded =>
          \A m \in MetalSet :
              delivered_price[m] /= None =>
                  /\ baseline_prices[m] = delivered_price[m]
                  /\ baseline_file[m] = delivered_price[m]
                  /\ LedgerCleared(m)
                  /\ get_baseline(m) =
                        (IF Override(m) > 0 THEN Override(m)
                         ELSE delivered_price[m])

\* A tick has ended in which gold was delivered and rebased below its
\* former baseline, and silver was then delivered too.
C6_Witness ==
    /\ TickEnded
    /\ delivered_price["gold"] /= None
    /\ delivered_price["silver"] /= None
    /\ delivered_price["gold"] /= delivered_price["silver"]
    /\ Override("gold") = 0

\* The watched metal is past its fetch, in the tick after one that delivered
\* an alert for it at the same display price.
SamePriceAfterDelivery ==
    /\ InTick
    /\ metal = watch
    /\ AfterFetch
    /\ prev.delivered
    /\ price_data = prev.price

\* C7 as stated: the tick after a delivery, fetching the same price, computes
\* a drop of 0 and dispatches nothing.
C7_Original ==
    SamePriceAfterDelivery =>
        /\ summary.drop_percentage /= Undefined
        /\ summary.drop_percentage[1] = 0
        /\ Count(DispatchKinds) = 0

\* C7 amended: with no positive override for the metal the second tick
\* dispatches nothing; its drop is 0 for a positive price, and undefined
\* (baseline not set) for the price 0.  With a positive override the drop is
\* measured against the override and the alert is dispatched again.
C7_NoRepeatUnlessOverride ==
    SamePriceAfterDelivery =>
        /\ Override(metal) <= 0 =>
              /\ Count(DispatchKinds) = 0
              /\ alerts = << >>
              /\ price_data > 0 => summary.drop_percentage = <<0, price_data>>
              /\ price_data = 0 =>
                    /\ summary.drop_percentage = Undefined
                    /\ report = "baseline_not_set"
        /\ (Override(metal) > 0 /\ pc = "continue") =>
              /\ summary.drop_percentage = prev.drop
              /\ Count(DispatchKinds) > 0

\* The second tick has evaluated the watched metal at the unchanged positive
\* price, with no override.
C7_Witness ==
    /\ SamePriceAfterDelivery
    /\ pc = "continue"
    /\ Override(metal) = 0
    /\ price_data > 0

\* send_price_alert went past its already-sent test for the threshold.
Attempted(threshold) ==
    \E j \in DOMAIN events :
        events[j] \in {Event("delivered", threshold),
                       Event("not_delivered", threshold)}
Crossed(threshold) == \E k \in DOMAIN alerts : alerts[k] = threshold

C9_FetchFailureSkipsMetal ==
    /\ (InTick /\ report = "fetch_failed") =>
          /\ pc \in {"continue", "exit"}
          /\ price_data = None
          /\ alerts = << >>
          /\ events = << >>
          /\ docs = start_docs
    /\ TickEnded => mi = Len(Metals)

\* The fetch of gold failed while gold had a baseline and a ledger entry.
C9_Witness ==
    /\ PassEnded
    /\ report = "fetch_failed"
    /\ mi = 1
    /\ Truthy(get_baseline(metal))
    /\ was_alert_sent(metal, 10)

\* The effective baseline of the current metal was unset when the pass began.
BaselineUnsetAtStart == start_docs[1][metal] = None /\ Override(metal) <= 0

\* C10: with the baseline unset and the fetch successful, the pass reports
\* baseline-not-set and ends with no alert, no call and the four documents
\* as they were when it began.
C10_UnsetBaselineRunsNothing ==
    (InTick /\ report \in {"checked", "baseline_not_set"}
       /\ BaselineUnsetAtStart) =>
        /\ report = "baseline_not_set"
        /\ pc \in {"continue", "exit"}
        /\ price_data /= None
        /\ alerts = << >>
        /\ events = << >>
        /\ docs = start_docs

\* A pass with the baseline unset has fetched a price and ended.
C10_Witness ==
    /\ PassEnded
    /\ report = "baseline_not_set"
    /\ BaselineUnsetAtStart
    /\ price_data \in Prices

\* The metal whose baseline the latest iteration of the set-baseline command
\* handled.
CommandMetal == IF pc = "sb_fetch" THEN Metals[mi - 1] ELSE Metals[mi]

\* C11: get_baseline returns the override of a metal when it is positive and
\* the persisted baseline otherwise, whatever set_baseline calls were made;
\* every set_baseline call (the rebase of a tick, the set-baseline command)
\* leaves its price in the baseline document, override or not.
C11_OverrideShadowsStoredBaseline ==
    /\ \A m \in MetalSet :
          get_baseline(m) =
              (IF Override(m) > 0 THEN Override(m) ELSE baseline_file[m])
    /\ (InTick /\ events /= << >> /\ LastEvent[1] = "set_baseline") =>
          /\ LastEvent[2] = price_data
          /\ baseline_file[metal] = price_data
    /\ (cmd = "set_baseline" /\ price_data /= None) =>
          baseline_file[CommandMetal] = price_data

\* The rebase of a tick has just written a price other than the positive
\* override of the metal, and get_baseline still returns the override.
C11_Witness ==
    /\ InTick
    /\ pc = "reset_alerts"
    /\ Override(metal) > 0
    /\ baseline_file[metal] /= Override(metal)
    /\ get_baseline(metal) = Override(metal)

\* A step that changes a stored baseline, in memory or in the document.
BaselineChanged ==
    baseline_prices' /= baseline_prices \/ baseline_file' /= baseline_file

\* C12: the stored baseline changes only in a step of the set-baseline
\* command that fetched a price, or in the rebase of a tick that follows a
\* send in which a channel delivered; the step sets the metal's baseline to
\* the fetched price and nothing else.  A pass without a delivery (fetch
\* failed, baseline unset, nothing crossed, price rose, threshold already
\* sent, every channel failed) ends with the baselines it began with, and so
\* does the reset-alerts command.
C12_BaselineChangesOnlyBySet ==
    /\ [][BaselineChanged =>
            /\ \/ /\ cmd = "set_baseline"
                  /\ pc = "sb_fetch"
                  /\ price_data' /= None
                  /\ baseline_prices' =
                        [baseline_prices EXCEPT ![metal] = price_data']
               \/ /\ InTick
                  /\ pc = "set_baseline"
                  /\ ~results.skipped
                  /\ results.email \/ results.sms
                  /\ baseline_prices' =
                        [baseline_prices EXCEPT ![metal] = price_data]
            /\ baseline_file' = baseline_prices']_vars
    /\ []((PassEnded /\ Count({"delivered"}) = 0) =>
             baseline_prices = start_docs[1] /\ baseline_file = start_docs[2])
    /\ [](cmd = "reset_alerts" =>
             baseline_prices = start_docs[1] /\ baseline_file = start_docs[2])

\* A pass has ended in which one threshold was skipped as already sent and
\* the other was delivered, and the baseline of the metal has changed.
C12_Witness ==
    /\ PassEnded
    /\ Count({"skipped"}) = 1
    /\ Count({"delivered"}) = 1
    /\ baseline_prices[metal] /= start_docs[1][metal]

\* Config.ALERT_10_PERCENT / ALERT_20_PERCENT, by threshold.
Enabled(threshold) ==
    IF threshold = 10 THEN Config.ALERT_10_PERCENT ELSE Config.ALERT_20_PERCENT
\* The thresholds t with (b - p) / b * 100 >= t, for a baseline b that is set.
Satisfied(b, p) ==
    {t \in Thresholds : b /= None /\ b > 0 /\ (b - p) * 100 >= t * b}
Evaluated == pc = "evaluated"

\* C13: check_alerts returns exactly the enabled thresholds that the drop
\* from the effective baseline to the price reaches or exceeds, each once,
\* in ascending order.
C13_ExactlyEnabledSatisfiedAscending ==
    Evaluated =>
        LET expected ==
                {t \in Satisfied(get_baseline(metal), price_data) : Enabled(t)}
        IN  /\ {alerts[k] : k \in DOMAIN alerts} = expected
            /\ Len(alerts) = Cardinality(expected)
            /\ \A j, k \in DOMAIN alerts : j < k => alerts[j] < alerts[k]

\* The drop is exactly 10 percent and threshold 10 is returned.
C13_Witness ==
    /\ Evaluated
    /\ get_baseline(metal) > 0
    /\ (get_baseline(metal) - price_data) * 100 = 10 * get_baseline(metal)
    /\ alerts = <<10>>

\* C14: the drop is undefined exactly when the effective baseline is unset
\* or not positive, and check_alerts then returns nothing; otherwise it is
\* (baseline - price) * 100 / baseline: positive when the price is below the
\* baseline, negative when it is above, zero when they are equal.
C14_DropPercentage ==
    Evaluated =>
        LET b == get_baseline(metal)
            d == summary.drop_percentage
        IN  /\ d = Undefined <=> (b = None \/ b <= 0)
            /\ d = Undefined => alerts = << >>
            /\ d /= Undefined =>
                  /\ d[2] > 0
                  /\ d[1] * b = (b - price_data) * 100 * d[2]
                  /\ d[1] > 0 <=> price_data < b
                  /\ d[1] < 0 <=> price_data > b

\* The price is above the baseline and the drop is negative.
C14_Witness ==
    /\ Evaluated
    /\ summary.drop_percentage /= Undefined
    /\ summary.drop_percentage[1] < 0
    /\ price_data > get_baseline(metal)

\* send_price_alert has returned for a threshold it did not skip.
SendReturned == InTick /\ pc = "results" /\ ~results.skipped
\* The channel was called for the threshold in the current pass.
Called(channel, threshold) ==
    \E j \in DOMAIN events : events[j] = Event(channel, threshold)

\* C15: a send that is not skipped calls every configured channel, and no
\* other, whatever the other channel answered, and the threshold is marked
\* sent (in memory and in the ledger document) if and only if a channel
\* answered with success.
C15_AllChannelsTriedMarkedIffDelivered ==
    SendReturned =>
        LET threshold == alerts[ti]
        IN  /\ Called("email", threshold) <=> is_email_configured
            /\ Called("sms", threshold) <=> is_sms_configured
            /\ results.email => is_email_configured
            /\ results.sms => is_sms_configured
            /\ was_alert_sent(metal, threshold) <=>
                  (results.email \/ results.sms)
            /\ state_file[metal][str(threshold)] /= Absent <=>
                  (results.email \/ results.sms)

\* Both channels are configured, the email failed, the SMS was still sent
\* and succeeded, and the threshold is marked.
C15_Witness ==
    /\ SendReturned
    /\ is_email_configured
    /\ is_sms_configured
    /\ ~results.email
    /\ results.sms
    /\ Called("email", alerts[ti])
    /\ Called("sms", alerts[ti])
    /\ was_alert_sent(metal, alerts[ti])

\* The calls of was_alert_sent made so far.
Queries == {i \in DOMAIN calls : calls[i].op = "was_alert_sent"}
SameEntry(i, j) ==
    calls[i].metal = calls[j].metal /\ calls[i].threshold = calls[j].threshold
\* A call of one of ops was made between the calls i and j.
Between(i, j, ops) == \E k \in (i + 1)..(j - 1) : calls[k].op \in ops

\* C16 as stated: two calls of was_alert_sent for the same entry with no
\* mark_alert_sent between them return the same result.
C16_Original ==
    \A i, j \in Queries :
        (i < j /\ SameEntry(i, j) /\ ~Between(i, j, {"mark_alert_sent"})) =>
            calls[i].result = calls[j].result

\* C16 amended: two calls of was_alert_sent for the same entry with neither
\* mark_alert_sent nor reset_alerts between them return the same result.
C16_SameResultUnlessMarkedOrReset ==
    \A i, j \in Queries :
        (i < j /\ SameEntry(i, j)
           /\ ~Between(i, j, {"mark_alert_sent", "reset_alerts"})) =>
            calls[i].result = calls[j].result

\* was_alert_sent was called twice for a metal that the ledger document does
\* not hold; the first call added the metal to the AlertState.
C16_Witness ==
    \E i, j \in Queries :
        /\ i < j
        /\ SameEntry(i, j)
        /\ state_file[calls[i].metal] = NoEntries
        /\ state[calls[i].metal] = EmptyEntries

\* A step that leaves every stored baseline as it is.
BaselinesKept ==
    baseline_prices' = baseline_prices /\ baseline_file' = baseline_file

\* C17: reset_alerts(metal), as the tick calls it, leaves every entry of the
\* metal absent and the entries of the other metal as they were;
\* reset_alerts(), as the set-baseline and reset-alerts commands call it,
\* leaves every entry absent; both save the ledger and neither changes a
\* baseline.
C17_ResetAlertsScope ==
    [][/\ (InTick /\ pc = "reset_alerts") =>
            /\ \A t \in Thresholds : state'[metal][str(t)] = Absent
            /\ \A m \in MetalSet \ {metal} : state'[m] = state[m]
            /\ state_file' = state'
            /\ BaselinesKept
       /\ (pc = "sb_reset" \/ (pc = "idle" /\ cmd' = "reset_alerts")) =>
            /\ \A m \in MetalSet : \A t \in Thresholds :
                  state'[m][str(t)] = Absent
            /\ state_file' = state'
            /\ BaselinesKept]_vars

\* The tick has reset the ledger of one metal while an entry of the other
\* metal is present.
C17_Witness ==
    /\ InTick
    /\ events /= << >>
    /\ LastEvent[1] = "reset_alerts"
    /\ LedgerCleared(metal)
    /\ \E m \in MetalSet \ {metal} : was_alert_sent(m, 10)

\* A process is running.
Running == pc \notin {"stopped", "raised"}

\* C18: a save writes all of a document or nothing: wherever the process
\* stops, no document on disk is the empty or partial remainder of a write.
C18_SaveIsAllOrNothing == \A d \in DocNames : disk[d] /= "partial"

\* What the process holds for the document d is the default structure.
HoldsDefault(d) ==
    /\ ~NotADict(d)
    /\ IF d = "baseline" THEN baseline_prices = DefaultBaselines
       ELSE state = DefaultState

\* C19: a process constructed over a document that is absent or corrupt
\* (partial, unparseable, or not an object) holds the default structure for
\* it until it saves the document, and no call of a tick or of a command
\* raises.
C19_LoadFallsBackToDefault ==
    /\ pc /= "raised"
    /\ Running =>
          \A d \in DocNames : disk[d] /= "complete" => HoldsDefault(d)

\* The feed outcomes for which no record can be built: a network error, an
\* envelope without success or without prices, a last observation with
\* missing or malformed fields.
FailingFeed(f) ==
    \/ f.transport = "error"
    \/ f.envelope /= "object"
    \/ ~f.success
    \/ f.data = << >>
    \/ f.data[Len(f.data)].kind /= "record"

\* C20: fetch_current_price never raises; it returns None for every failing
\* feed outcome and otherwise the record built from the last observation of
\* the price list.
C20_FetchReturnsNoneOrLastRecord ==
    /\ pc /= "raised"
    /\ pc = "fetched" =>
          IF FailingFeed(feed)
          THEN fetched = NotAvailable
          ELSE fetched = [outcome |-> "PriceData",
                          display_price |-> feed.data[Len(feed.data)].price]

\* The set-baseline command has run to its end.
CommandEnded == cmd = "set_baseline" /\ pc = "exit"
\* The display price the set-baseline command fetched for the metal, None
\* when that fetch failed: price_data is the fetch of the last metal, and
\* events holds one set_baseline per successful fetch, in the order of Metals.
CommandPrice(m) ==
    IF m = Metals[Len(Metals)] THEN price_data
    ELSE IF Count({"set_baseline"}) > (IF price_data /= None THEN 1 ELSE 0)
    THEN events[1][2]
    ELSE None

\* C21: after the set-baseline command a metal whose fetch succeeded has the
\* fetched display price as its stored baseline and a clear ledger; a metal
\* whose fetch failed has the baseline and the ledger entries it had when
\* the command began.
C21_CommandClearsOnlyRebasedMetals ==
    CommandEnded =>
        \A m \in MetalSet :
            IF CommandPrice(m) /= None
            THEN /\ baseline_prices[m] = CommandPrice(m)
                 /\ baseline_file[m] = CommandPrice(m)
                 /\ LedgerCleared(m)
            ELSE /\ baseline_prices[m] = start_docs[1][m]
                 /\ baseline_file[m] = start_docs[2][m]
                 /\ state[m] = start_docs[3][m]
                 /\ state_file[m] = start_docs[4][m]

\* The metals that the current pass of the tick is not about.
OtherMetals == MetalSet \ {metal}

\* C22: throughout the pass of one metal in a tick, the stored baseline and
\* the ledger entries of the other metal are what they were when the pass
\* began, in memory and in the two documents.
C22_OtherMetalUntouched ==
    InTick =>
        \A m \in OtherMetals :
            /\ baseline_prices[m] = start_docs[1][m]
            /\ baseline_file[m] = start_docs[2][m]
            /\ state[m] = start_docs[3][m]
            /\ state_file[m] = start_docs[4][m]

\* A pass has delivered, marked, rebased and reset for its metal while the
\* other metal has a baseline and a ledger entry.
C22_Witness ==
    /\ PassEnded
    /\ Count({"mark_alert_sent"}) > 0
    /\ Count({"set_baseline"}) > 0
    /\ Count({"reset_alerts"}) > 0
    /\ baseline_prices[metal] /= start_docs[1][metal]
    /\ \E m \in OtherMetals :
          baseline_prices[m] \in Prices /\ was_alert_sent(m, 20)

\* was_alert_sent on the AlertState that a process constructed now would
\* load.
was_alert_sent_reloaded(m, threshold) ==
    _load_state[m][str(threshold)] \notin {Absent, Missing}
\* No call is in progress: the process is between two commands.
BetweenCommands == pc \in {"idle", "exit"}

RebasedNotReset ==
    \E i \in EventsOf({"set_baseline"}) :
        \A j \in EventsOf({"reset_alerts"}) : j < i

\* C24: when the process stops during a tick, the documents it leaves do not
\* show the metal of the interrupted pass with a rebased baseline and a
\* ledger entry that was marked before the rebase.
C24_StopLeavesNoStaleEntry ==
    [][(InTick /\ Running /\ pc' = "stopped" /\ RebasedNotReset) =>
           \A t \in Thresholds :
               state_file'[metal][str(t)] \in {Absent, Missing}]_vars

\* A tick or an operator command has run to its end, or none is running.
Completed == pc \in {"idle", "exit"}
\* The ledger, in the process and in its document, holds no entry.
LedgerEmpty == \A m \in MetalSet : LedgerCleared(m)

\* C25: starting from a ledger without entries, the ledger holds no entry
\* after every pass of a tick, after every completed tick and after every
\* completed command, and send_price_alert never returns skipped.
C25_LedgerEmptyAfterEveryTick ==
    /\ (Completed \/ PassEnded) => LedgerEmpty
    /\ ~results.skipped
    /\ Count({"skipped"}) = 0

\* A tick has ended whose last pass marked a threshold as sent, and the
\* ledger holds no entry.
C25_Witness ==
    /\ TickEnded
    /\ Count({"mark_alert_sent"}) > 0
    /\ delivered_price[metal] /= None
    /\ LedgerEmpty

\* The smallest threshold that is enabled (one is, when check_alerts
\* returned a threshold).
MinEnabled ==
    CHOOSE t \in Thresholds :
        Enabled(t) /\ \A u \in Thresholds : Enabled(u) => t <= u
\* The step is the set_baseline call of a tick's rebase.
RebaseStep == InTick /\ pc = "set_baseline" /\ pc' = "reset_alerts"

\* C26: the baseline a tick's rebase writes is strictly lower than the
\* effective baseline the tick evaluated against, by at least the smallest
\* enabled threshold (new * 100 <= old * (100 - T)); and no step of a tick
\* raises the stored baseline of a metal that has no override.
C26_RebaseLowersBaseline ==
    [][/\ RebaseStep =>
              /\ baseline_prices'[metal] < summary.baseline_price
              /\ baseline_prices'[metal] * 100
                     <= summary.baseline_price * (100 - MinEnabled)
              /\ baseline_file'[metal] = baseline_prices'[metal]
       /\ InTick =>
              \A m \in MetalSet :
                  Override(m) <= 0 =>
                      /\ baseline_prices'[m] <= baseline_prices[m]
                      /\ baseline_file'[m] <= baseline_file[m]]_vars

\* A tick has rebased the stored baseline of a metal without override to a
\* lower price, with the 10% threshold disabled.
C26_Witness ==
    /\ InTick
    /\ pc = "reset_alerts"
    /\ Override(metal) = 0
    /\ MinEnabled = 20
    /\ baseline_prices[metal] \in Prices
    /\ baseline_prices[metal] < summary.baseline_price
    /\ summary.baseline_price = start_docs[1][metal]
====
